---- MODULE Spec2Model ----
(***************************************************************************)
(* Model of the pull-request refresh pipeline of src/src/main.rs: the      *)
(* render loop of main() (periodic trigger, poll of the receiver, manual    *)
(* trigger on the button) and the worker thread started by                  *)
(* spawn_github_fetch (identity -> search -> repository listing -> pulls).  *)
(***************************************************************************)
EXTENDS Integers, Sequences, FiniteSets, TLC

VARIABLES
    pc,                 \* position of the render loop inside one frame
    now,                \* `now.timestamp()` of the current frame (seconds)
    github_status,      \* ConnectionStatus
    github_rx,          \* Option<Receiver>: None or Some(worker id)
    github_last_fetch,  \* timestamp of the last periodic trigger
    github_token,       \* Option<String>
    github_prs,         \* Vec<GithubPr> shown by the presenter
    workers,            \* live worker threads and their channels, by id
    last_auto,          \* history: time of the latest periodic trigger
    last_manual         \* history: time of the latest button click

vars == <<pc, now, github_status, github_rx, github_last_fetch, github_token,
          github_prs, workers, last_auto, last_manual>>

render == <<github_status, github_rx, github_last_fetch, github_token, github_prs>>

----------------------------------------------------------------------------
(* Bounds of the model *)

MaxTime == 450
MaxWorkers == 2
MaxSearchItems == 4
MaxRepos == 2
MaxPulls == 2

(* Constants of the program *)

FetchInterval == 300
InitialBacklog == 360
PrLimit == 3
RepoLimit == 20

TimeSteps == {0, 150, 300}

----------------------------------------------------------------------------
(* Option<T>, strings and JSON values *)

None == <<>>
Some(x) == <<x>>
IsSome(o) == o # <<>>
Unwrap(o) == o[1]

\* Option<&str>::unwrap_or(default)
UnwrapOr(o, default) == IF IsSome(o) THEN o[1] ELSE default

\* take(n) left out
TakeAll(s, n) == s

\* Iterator::take(n)
Take(s, n) == IF Len(s) <= n THEN s ELSE SubSeq(s, 1, n)

\* A timestamp string is a sequence of character codes; "" is <<>>.
\* str::cmp: lexicographic comparison, -1 / 0 / 1.
RECURSIVE StrCmp(_, _)
StrCmp(a, b) ==
    IF a = <<>> /\ b = <<>> THEN 0
    ELSE IF a = <<>> THEN -1
    ELSE IF b = <<>> THEN 1
    ELSE IF Head(a) < Head(b) THEN -1
    ELSE IF Head(a) > Head(b) THEN 1
    ELSE StrCmp(Tail(a), Tail(b))

\* All sequences over S of length at most n.
SeqsUpTo(S, n) == UNION {[1..k -> S] : k \in 0..n}

----------------------------------------------------------------------------
(* JSON bodies, reduced to the fields the worker reads.  A field that is   *)
(* absent or not a string is None; a body that does not parse is JNull.    *)

JNull == [type |-> "null"]
JUser(login) == [type |-> "object", login |-> login]
JSearch(items) == [type |-> "object", items |-> items]
JArray(elems) == [type |-> "array", elems |-> elems]
JOther == [type |-> "object", login |-> None, items |-> None]

\* Outcome of agent.get(..).call() followed by resp.into_string()
Err == [kind |-> "err"]                  \* transport error or non-2xx status
Unreadable == [kind |-> "unreadable"]    \* into_string() failed
Body(json) == [kind |-> "body", json |-> json]

GithubPr(title, url) == [title |-> title, url |-> url]
GithubFetchResult(connected, prs) == [connected |-> connected, prs |-> prs]

----------------------------------------------------------------------------
(* Parsing done by the worker *)

\* A missing login is replaced by the empty string
ParseLoginDefault(json) ==
    IF json.type = "object" /\ IsSome(json.login) THEN json.login ELSE Some("")

\* user_json.get("login").and_then(as_str)
ParseLogin(json) ==
    IF json.type = "object" THEN json.login ELSE None

\* The items are collected in reverse order
ParseSearchReversed(json) ==
    IF json.type = "object" /\ IsSome(json.items)
    THEN LET ok == SelectSeq(Unwrap(json.items),
                       LAMBDA it : IsSome(it.title) /\ IsSome(it.html_url))
             all == [i \in 1..Len(ok) |->
                       GithubPr(Unwrap(ok[Len(ok) + 1 - i].title),
                                Unwrap(ok[Len(ok) + 1 - i].html_url))]
         IN Take(all, PrLimit)
    ELSE <<>>

\* items.iter().filter_map(title && html_url).take(3)
ParseSearch(json) ==
    IF json.type = "object" /\ IsSome(json.items)
    THEN LET ok == SelectSeq(Unwrap(json.items),
                       LAMBDA it : IsSome(it.title) /\ IsSome(it.html_url))
             all == [i \in 1..Len(ok) |->
                       GithubPr(Unwrap(ok[i].title), Unwrap(ok[i].html_url))]
         IN Take(all, PrLimit)
    ELSE <<>>

\* Every named repository is taken
ParseReposUnlimited(json) ==
    IF json.type = "array"
    THEN LET ok == SelectSeq(json.elems, LAMBDA it : IsSome(it.full_name))
         IN [i \in 1..Len(ok) |-> Unwrap(ok[i].full_name)]
    ELSE <<>>

\* repos_json.as_array() ... filter_map(full_name).take(20)
ParseRepos(json) ==
    IF json.type = "array"
    THEN LET ok == SelectSeq(json.elems, LAMBDA it : IsSome(it.full_name))
         IN Take([i \in 1..Len(ok) |-> Unwrap(ok[i].full_name)], RepoLimit)
    ELSE <<>>

\* for pr in pulls { if author == login { matches.push((updated, pr)) } }
KeepOwn(pulls, login) ==
    LET own == SelectSeq(pulls, LAMBDA p : UnwrapOr(p.user_login, "") = login)
    IN [i \in 1..Len(own) |->
          <<UnwrapOr(own[i].updated_at, <<>>),
            GithubPr(UnwrapOr(own[i].title, ""), UnwrapOr(own[i].html_url, ""))>>]

\* Insertion in front of the elements equal to x: not stable
RECURSIVE InsertDescUnstable(_, _)
InsertDescUnstable(s, x) ==
    IF s = <<>> THEN <<x>>
    ELSE IF StrCmp(x[1], Head(s)[1]) # -1 THEN <<x>> \o s
    ELSE <<Head(s)>> \o InsertDescUnstable(Tail(s), x)

\* Stable insertion of x behind every element that is not smaller than it.
RECURSIVE InsertDesc(_, _)
InsertDesc(s, x) ==
    IF s = <<>> THEN <<x>>
    ELSE IF StrCmp(x[1], Head(s)[1]) = 1 THEN <<x>> \o s
    ELSE <<Head(s)>> \o InsertDesc(Tail(s), x)

RECURSIVE SortFrom(_, _)
SortFrom(sorted, rest) ==
    IF rest = <<>> THEN sorted
    ELSE SortFrom(InsertDesc(sorted, Head(rest)), Tail(rest))

\* matches.sort_by(|a, b| b.0.cmp(&a.0))
SortByUpdatedDesc(matches) == SortFrom(<<>>, matches)

\* matches.into_iter().map(|(_, pr)| pr).take(3).collect()
TopPrs(matches) ==
    LET sorted == SortByUpdatedDesc(matches)
    IN Take([i \in 1..Len(sorted) |-> sorted[i][2]], PrLimit)

----------------------------------------------------------------------------
(* Responses the remote service can give, per request                      *)

Login == "me"

UserResponses ==
    {Err, Unreadable, Body(JNull), Body(JUser(None)), Body(JUser(Some(Login)))}

ItemA == [title |-> Some("a"), html_url |-> Some("ua")]
ItemB == [title |-> Some("b"), html_url |-> Some("ub")]
ItemNoUrl == [title |-> Some("b"), html_url |-> None]

SearchResponsesOver(bodies) ==
    {Err, Unreadable, Body(JNull), Body(JSearch(None))}
    \cup {Body(JSearch(Some(s))) : s \in bodies}

\* Repository listings: the i-th element is the i-th repository or an
\* element without a full_name.
RepoNames == <<"R1", "R2", "R3", "R4">>

RepoBodies(n) ==
    UNION {{[i \in 1..k |-> IF i \in named
                            THEN [full_name |-> Some(RepoNames[i])]
                            ELSE [full_name |-> None]] : named \in SUBSET (1..k)}
           : k \in 0..n}

ReposResponsesOver(bodies) ==
    {Err, Unreadable, Body(JNull), Body(JOther)}
    \cup {Body(JArray(s)) : s \in bodies}

Pull(author, title, url, updated) ==
    [user_login |-> author, title |-> title, html_url |-> url,
     updated_at |-> updated]

PullA == Pull(Some(Login), Some("a"), Some("ua"), Some(<<9>>))
PullB == Pull(Some(Login), Some("b"), Some("ub"), Some(<<1, 0>>))
PullOther == Pull(Some("you"), Some("a"), Some("ua"), Some(<<9>>))
PullBare == Pull(None, None, None, None)

PullsResponsesOver(bodies) ==
    {Err, Unreadable, Body(JNull), Body(JOther)}
    \cup {Body(JArray(s)) : s \in bodies}

\* Every response shape, with bodies up to the bounds.
FullInputs ==
    [search |-> SearchResponsesOver(
                  SeqsUpTo({ItemA, ItemB, ItemNoUrl}, MaxSearchItems)),
     repos  |-> ReposResponsesOver(RepoBodies(MaxRepos)),
     pulls  |-> PullsResponsesOver(
                  SeqsUpTo({PullA, PullB, PullOther}, MaxPulls))]

\* The same shapes with the shortest bodies that reach every branch.
SmallInputs ==
    [search |-> SearchResponsesOver({<<>>, <<ItemNoUrl>>, <<ItemA>>}),
     repos  |-> ReposResponsesOver(RepoBodies(1)),
     pulls  |-> PullsResponsesOver({<<>>, <<PullA>>, <<PullBare>>})]

----------------------------------------------------------------------------
(* Worker threads (spawn_github_fetch) *)

NewWorker ==
    [pc |-> "identify", login |-> "", repos |-> <<>>, matches |-> <<>>,
     reqs |-> <<>>, chan |-> <<>>]

Remove(ws, w) == [x \in DOMAIN ws \ {w} |-> ws[x]]

FreeIds == (1..MaxWorkers) \ DOMAIN workers

\* The id given to the next thread and its channel
NewId == CHOOSE w \in FreeIds : \A v \in FreeIds : w <= v

\* let (tx, rx) = mpsc::channel(); thread::spawn(..); rx
Spawned(ws, w) == [x \in DOMAIN ws \cup {w} |-> IF x = w THEN NewWorker ELSE ws[x]]

\* Dropping a receiver drops its channel together with a value still queued
\* in it; a worker that has not sent yet keeps running.
DropReceiver(ws, rx) ==
    IF IsSome(rx) /\ Unwrap(rx) \in DOMAIN ws /\ ws[Unwrap(rx)].pc = "done"
    THEN Remove(ws, Unwrap(rx))
    ELSE ws

\* The value is sent but the thread does not return
SendNoReturn(w, wk, result) ==
    workers' = IF github_rx = Some(w)
               THEN [workers EXCEPT ![w] = [wk EXCEPT !.chan = Append(@, result)]]
               ELSE [workers EXCEPT ![w] = wk]

\* One channel shared by all workers: a worker whose receiver was replaced
\* queues its value for the receiver that is held
SendShared(w, wk, result) ==
    workers' = IF github_rx = Some(w)
               THEN [workers EXCEPT ![w] =
                       [NewWorker EXCEPT !.pc = "done",
                                         !.reqs = wk.reqs,
                                         !.chan = Append(wk.chan, result)]]
               ELSE IF IsSome(github_rx)
               THEN Remove([workers EXCEPT ![Unwrap(github_rx)].chan =
                                             Append(@, result)], w)
               ELSE Remove(workers, w)

\* let _ = tx.send(result); return;   (wk is the worker just before the send)
\* The send queues the value if the receiver is alive and fails, ignored,
\* if it was dropped; the thread ends either way and its locals are gone
\* (reqs stays as the log of the requests of the cycle).
Send(w, wk, result) ==
    workers' = IF github_rx = Some(w)
               THEN [workers EXCEPT ![w] =
                       [NewWorker EXCEPT !.pc = "done",
                                         !.reqs = wk.reqs,
                                         !.chan = Append(wk.chan, result)]]
               ELSE Remove(workers, w)

Goto(w, wk) == workers' = [workers EXCEPT ![w] = wk]

\* A request that is issued a second time
IssuedWithRetry(wk, endpoint, repo) ==
    [wk EXCEPT !.reqs = @ \o <<<<endpoint, repo>>, <<endpoint, repo>>>>]

\* One blocking agent.get(url).call(), logged as <<endpoint, repository>>
Issued(wk, endpoint, repo) == [wk EXCEPT !.reqs = Append(@, <<endpoint, repo>>)]

\* connected computed from the list instead of being true
FinalResultInverted(prs) == GithubFetchResult(prs = <<>>, prs)

\* The value sent at the normal end of the cascade
FinalResult(prs) == GithubFetchResult(TRUE, prs)

\* The identity request of worker w is answered by resp
IdentifyOn(w, resp) ==
    /\ workers[w].pc = "identify"
    /\ LET wk == Issued(workers[w], "user", "")
           login == IF resp.kind = "body" THEN ParseLogin(resp.json) ELSE None
       IN IF IsSome(login)
          THEN Goto(w, [wk EXCEPT !.pc = "search", !.login = Unwrap(login)])
          ELSE Send(w, wk, GithubFetchResult(FALSE, <<>>))
    /\ UNCHANGED <<pc, now, render, last_auto, last_manual>>

Identify(w) == \E resp \in UserResponses : IdentifyOn(w, resp)

\* An error is taken for an empty result
SearchFailedOnlyUnreadable(resp) == resp.kind = "unreadable"

\* match prs_resp { Ok(2xx) => .., _ => send; return } and into_string() Err
SearchFailed(resp) == resp.kind # "body"

\* The search request of worker w is answered by resp
SearchOn(w, resp) ==
    /\ workers[w].pc = "search"
    /\ LET wk == Issued(workers[w], "search", "")
           json == IF resp.kind = "body" THEN resp.json ELSE JNull
           prs == ParseSearch(json)
       IN IF SearchFailed(resp)
          THEN Send(w, wk, GithubFetchResult(TRUE, <<>>))
          ELSE IF prs = <<>>
               THEN Goto(w, [wk EXCEPT !.pc = "repos"])
               ELSE Send(w, wk, FinalResult(prs))
    /\ UNCHANGED <<pc, now, render, last_auto, last_manual>>

Search(w, I) == \E resp \in I.search : SearchOn(w, resp)

\* The repository listing of worker w is answered by resp
ListReposOn(w, resp) ==
    /\ workers[w].pc = "repos"
    /\ LET wk == Issued(workers[w], "repos", "")
       IN IF resp.kind = "err"
          THEN Send(w, wk, GithubFetchResult(TRUE, <<>>))
          ELSE LET json == IF resp.kind = "body" THEN resp.json ELSE JNull
                   repos == ParseRepos(json)
               IN IF repos = <<>>
                  THEN Send(w, wk, FinalResult(TopPrs(<<>>)))
                  ELSE Goto(w, [wk EXCEPT !.pc = "pulls", !.repos = repos])
    /\ UNCHANGED <<pc, now, render, last_auto, last_manual>>

ListRepos(w, I) == \E resp \in I.repos : ListReposOn(w, resp)

\* Ok(2xx) and a body that is an array; anything else is `continue`
PullsUsable(resp) == resp.kind = "body" /\ resp.json.type = "array"

\* `break` in the place of `continue`
RestAfterBreak(resp, repos) == IF PullsUsable(resp) THEN Tail(repos) ELSE <<>>

\* The repositories the loop still has to visit after this one
RestAfter(resp, repos) == Tail(repos)

\* The pull list of the next repository of worker w is answered by resp
ListPullsOn(w, resp) ==
    /\ workers[w].pc = "pulls"
    /\ LET wk == Issued(workers[w], "pulls", Head(workers[w].repos))
           kept == IF PullsUsable(resp)
                   THEN KeepOwn(resp.json.elems, wk.login)
                   ELSE <<>>
           matches == wk.matches \o kept
           rest == RestAfter(resp, wk.repos)
       IN IF rest = <<>>
          THEN Send(w, [wk EXCEPT !.repos = rest, !.matches = matches],
                    FinalResult(TopPrs(matches)))
          ELSE Goto(w, [wk EXCEPT !.repos = rest, !.matches = matches])
    /\ UNCHANGED <<pc, now, render, last_auto, last_manual>>

ListPulls(w, I) == \E resp \in I.pulls : ListPullsOn(w, resp)

WorkerStep(w, I) ==
    \/ Identify(w)
    \/ Search(w, I)
    \/ ListRepos(w, I)
    \/ ListPulls(w, I)

----------------------------------------------------------------------------
(* The render loop of main(), one frame = FrameStart, periodic trigger,    *)
(* poll, button                                                            *)

Tokens == {None, Some("tok")}

\* let now = Local::now();
FrameStart ==
    /\ pc = "frame"
    /\ \E d \in TimeSteps : now + d <= MaxTime /\ now' = now + d
    /\ pc' = "periodic"
    /\ UNCHANGED <<render, workers, last_auto, last_manual>>

\* now.timestamp() - github_last_fetch >= 300 && github_rx.is_none()
PeriodicDue == now - github_last_fetch >= FetchInterval /\ github_rx = None

\* github_last_fetch left as it was
LastFetchStale == github_last_fetch

\* github_last_fetch = now.timestamp();
LastFetchAtTrigger == now

\* Periodic trigger with a token: a worker is started
PeriodicSpawn ==
    /\ pc = "periodic"
    /\ PeriodicDue
    /\ IsSome(github_token)
    /\ FreeIds # {}
    /\ github_rx' = Some(NewId)
    /\ workers' = Spawned(workers, NewId)
    /\ github_last_fetch' = LastFetchAtTrigger
    /\ github_status' = "Unknown"
    /\ last_auto' = Some(now)
    /\ pc' = "poll"
    /\ UNCHANGED <<now, github_token, github_prs, last_manual>>

\* A worker is started although there is no token
PeriodicNoTokenSpawns ==
    /\ pc = "periodic"
    /\ PeriodicDue
    /\ ~IsSome(github_token)
    /\ FreeIds # {}
    /\ github_rx' = Some(NewId)
    /\ workers' = Spawned(workers, NewId)
    /\ github_last_fetch' = LastFetchAtTrigger
    /\ github_status' = "Disconnected"
    /\ github_prs' = <<>>
    /\ last_auto' = Some(now)
    /\ pc' = "poll"
    /\ UNCHANGED <<now, github_token, last_manual>>

\* The trigger time is not advanced when there is no token
PeriodicNoTokenStale ==
    /\ pc = "periodic"
    /\ PeriodicDue
    /\ ~IsSome(github_token)
    /\ github_status' = "Disconnected"
    /\ github_prs' = <<>>
    /\ last_auto' = Some(now)
    /\ pc' = "poll"
    /\ UNCHANGED <<now, github_rx, github_last_fetch, github_token, workers,
                   last_manual>>

\* Periodic trigger without a token
PeriodicNoToken ==
    /\ pc = "periodic"
    /\ PeriodicDue
    /\ ~IsSome(github_token)
    /\ github_last_fetch' = LastFetchAtTrigger
    /\ github_status' = "Disconnected"
    /\ github_prs' = <<>>
    /\ last_auto' = Some(now)
    /\ pc' = "poll"
    /\ UNCHANGED <<now, github_rx, github_token, workers, last_manual>>

\* The periodic condition is false
PeriodicSkip ==
    /\ pc = "periodic"
    /\ ~PeriodicDue
    /\ pc' = "poll"
    /\ UNCHANGED <<now, render, workers, last_auto, last_manual>>

\* rx.try_recv() is Ok(result)
PollReady == IsSome(github_rx) /\ workers[Unwrap(github_rx)].chan # <<>>

\* The received list is appended to the one shown
PollRecvAppends ==
    /\ pc = "poll"
    /\ PollReady
    /\ LET w == Unwrap(github_rx)
           result == workers[w].chan[1]
       IN /\ github_status' = IF result.connected THEN "Connected"
                                                  ELSE "Disconnected"
          /\ github_prs' = github_prs \o result.prs
          /\ github_rx' = None
          /\ workers' = Remove(workers, w)
    /\ pc' = "click"
    /\ UNCHANGED <<now, github_last_fetch, github_token, last_auto, last_manual>>

\* rx.try_recv() is Ok(result): the outcome is applied
PollRecv ==
    /\ pc = "poll"
    /\ PollReady
    /\ LET w == Unwrap(github_rx)
           result == workers[w].chan[1]
       IN /\ github_status' = IF result.connected THEN "Connected"
                                                  ELSE "Disconnected"
          /\ github_prs' = result.prs
          /\ github_rx' = None
          /\ workers' = Remove(workers, w)
    /\ pc' = "click"
    /\ UNCHANGED <<now, github_last_fetch, github_token, last_auto, last_manual>>

\* Any try_recv() error gives the receiver up
PollEmptyClears ==
    /\ pc = "poll"
    /\ ~PollReady
    /\ github_rx' = None
    /\ workers' = DropReceiver(workers, github_rx)
    /\ pc' = "click"
    /\ UNCHANGED <<now, github_status, github_last_fetch, github_token,
                   github_prs, last_auto, last_manual>>

\* no receiver, or try_recv() is Err(Empty)
PollEmpty ==
    /\ pc = "poll"
    /\ ~PollReady
    /\ pc' = "click"
    /\ UNCHANGED <<now, render, workers, last_auto, last_manual>>

\* The list is cleared when the click starts a worker
ManualSpawnClears ==
    /\ pc = "click"
    /\ github_token' = Some("tok")
    /\ FreeIds # {}
    /\ github_rx' = Some(NewId)
    /\ workers' = Spawned(DropReceiver(workers, github_rx), NewId)
    /\ github_status' = "Unknown"
    /\ github_prs' = <<>>
    /\ last_manual' = Some(now)
    /\ pc' = "frame"
    /\ UNCHANGED <<now, github_last_fetch, last_auto>>

\* The button is pressed and load_github_token() finds a token
ManualSpawn ==
    /\ pc = "click"
    /\ github_token' = Some("tok")
    /\ FreeIds # {}
    /\ github_rx' = Some(NewId)
    /\ workers' = Spawned(DropReceiver(workers, github_rx), NewId)
    /\ github_status' = "Unknown"
    /\ last_manual' = Some(now)
    /\ pc' = "frame"
    /\ UNCHANGED <<now, github_last_fetch, github_prs, last_auto>>

\* The list is left on display when the click finds no token
ManualNoTokenKeepsList ==
    /\ pc = "click"
    /\ github_token' = None
    /\ github_status' = "Disconnected"
    /\ last_manual' = Some(now)
    /\ pc' = "frame"
    /\ UNCHANGED <<now, github_rx, github_last_fetch, github_prs, workers,
                   last_auto>>

\* The button is pressed and load_github_token() finds no token
ManualNoToken ==
    /\ pc = "click"
    /\ github_token' = None
    /\ github_status' = "Disconnected"
    /\ github_prs' = <<>>
    /\ last_manual' = Some(now)
    /\ pc' = "frame"
    /\ UNCHANGED <<now, github_rx, github_last_fetch, workers, last_auto>>

\* No press on the button in this frame
NoClick ==
    /\ pc = "click"
    /\ pc' = "frame"
    /\ UNCHANGED <<now, render, workers, last_auto, last_manual>>

----------------------------------------------------------------------------

Init ==
    /\ pc = "frame"
    /\ now = 0
    /\ github_status = "Unknown"
    /\ github_rx = None
    /\ github_last_fetch = 0 - InitialBacklog
    /\ github_token \in Tokens
    /\ github_prs = <<>>
    /\ workers = <<>>
    /\ last_auto = None
    /\ last_manual = None

Next ==
    \/ FrameStart
    \/ PeriodicSpawn
    \/ PeriodicNoToken
    \/ PeriodicSkip
    \/ PollRecv
    \/ PollEmpty
    \/ ManualSpawn
    \/ ManualNoToken
    \/ NoClick
    \/ \E w \in DOMAIN workers : WorkerStep(w, SmallInputs)

Spec == Init /\ [][Next]_vars

\* The button is never pressed; responses range over the full bodies.
NextQuiet ==
    \/ FrameStart
    \/ PeriodicSpawn
    \/ PeriodicNoToken
    \/ PeriodicSkip
    \/ PollRecv
    \/ PollEmpty
    \/ NoClick
    \/ \E w \in DOMAIN workers : WorkerStep(w, FullInputs)

SpecQuiet == Init /\ [][NextQuiet]_vars

----------------------------------------------------------------------------
(* Properties *)

AutoTrigger == PeriodicSpawn \/ PeriodicNoToken
ManualTrigger == ManualSpawn \/ ManualNoToken

Executing == {w \in DOMAIN workers : workers[w].pc # "done"}

\* The outcomes queued in a channel
Outcomes == {workers[w].chan[1] : w \in {x \in DOMAIN workers : workers[x].chan # <<>>}}

\* C1: at most one worker thread is executing at any time.
C1_AtMostOneWorker == Cardinality(Executing) <= 1

\* C2: a periodic or manual trigger taken while a receiver is held changes
\* neither github_last_fetch, github_rx, github_status, github_prs nor the
\* set of workers.
C2_TriggerInFlightNoOp ==
    [][(AutoTrigger \/ ManualTrigger) /\ IsSome(github_rx)
        => UNCHANGED <<github_last_fetch, github_rx, github_status,
                       github_prs, workers>>]_vars

\* C3: a manual trigger at time t sets github_last_fetch to t, and no
\* periodic trigger fires before 300s have passed since the latest manual
\* trigger.
C3_ManualSuppressesAuto ==
    [][/\ ManualTrigger => github_last_fetch' = now
       /\ AutoTrigger /\ IsSome(last_manual)
            => now >= Unwrap(last_manual) + 300]_vars

\* C4: a periodic trigger fires at least 300s after the previous periodic
\* trigger, whatever happened to the cycle that trigger started.
C4_AutoSpacing ==
    [][AutoTrigger /\ IsSome(last_auto) => now - Unwrap(last_auto) >= 300]_vars

\* A second periodic trigger has fired (the first one fires by time 300).
C4_Witness == IsSome(last_auto) /\ Unwrap(last_auto) > 300

\* C5: the receiver of a started worker is given up only by the poll that
\* applies the worker's outcome, so that no outcome is dropped.
C5_ExactlyOnce ==
    [][IsSome(github_rx) /\ github_rx' # github_rx
        => /\ pc = "poll"
           /\ workers[Unwrap(github_rx)].chan # <<>>
           /\ github_prs' = workers[Unwrap(github_rx)].chan[1].prs]_vars

\* C6: every queued outcome and the list shown have at most 3 items.
C6_AtMostThree ==
    /\ Len(github_prs) <= 3
    /\ \A r \in Outcomes : Len(r.prs) <= 3

\* A cycle that went through the fallback (it listed pulls) has queued an
\* outcome of 3 items while 3 items of an earlier cycle are shown.
C6_Witness ==
    /\ Len(github_prs) = 3
    /\ \E w \in DOMAIN workers :
         /\ workers[w].chan # <<>>
         /\ Len(workers[w].chan[1].prs) = 3
         /\ Len(workers[w].reqs) > 3

\* C7: an outcome with connected = false has no items, and a trigger
\* without a token leaves no items either.
C7_DisconnectedEmpty ==
    /\ [](\A r \in Outcomes : ~r.connected => r.prs = <<>>)
    /\ [][(AutoTrigger \/ ManualTrigger) /\ github_status' = "Disconnected"
            => github_prs' = <<>>]_vars

\* A worker has sent a disconnected outcome while a list is still shown.
C7_Witness ==
    /\ \E r \in Outcomes : ~r.connected
    /\ github_prs # <<>>

\* C8: a trigger without a token sets the status to Disconnected, clears
\* the list, starts no worker and issues no request.
C8_NoTokenTrigger ==
    [][(PeriodicNoToken \/ ManualNoToken)
        => /\ github_status' = "Disconnected"
           /\ github_prs' = <<>>
           /\ workers' = workers
           /\ github_rx' = github_rx]_vars

\* A periodic trigger without a token has just been taken.
C8_Witness ==
    /\ pc = "poll"
    /\ github_token = None
    /\ last_auto = Some(now)
    /\ github_status = "Disconnected"
    /\ now > 0

\* C9: a poll that finds no receiver, or a receiver with nothing queued,
\* changes nothing of the scheduler and presenter state.
C9_PollEmptyNoChange ==
    [][(/\ pc = "poll" /\ pc' # pc
        /\ (github_rx = None \/ workers[Unwrap(github_rx)].chan = <<>>))
        => UNCHANGED <<github_rx, github_last_fetch, github_status,
                       github_prs, github_token, workers>>]_vars

\* A poll has passed over a worker that has not sent yet.
C9_Witness ==
    /\ pc = "click"
    /\ IsSome(github_rx)
    /\ workers[Unwrap(github_rx)].chan = <<>>
    /\ workers[Unwrap(github_rx)].pc # "identify"

\* C10: a poll that finds an outcome removes it from the channel, clears
\* github_rx, sets the status from outcome.connected and replaces the list
\* by outcome.prs.
C10_PollConsumes ==
    [][(/\ pc = "poll" /\ pc' # pc
        /\ IsSome(github_rx)
        /\ workers[Unwrap(github_rx)].chan # <<>>)
        => LET w == Unwrap(github_rx)
               outcome == workers[w].chan[1]
           IN /\ github_rx' = None
              /\ w \notin DOMAIN workers'
              /\ github_status' = IF outcome.connected THEN "Connected"
                                                       ELSE "Disconnected"
              /\ github_prs' = outcome.prs]_vars

\* A poll has just applied a connected outcome with items.
C10_Witness ==
    /\ pc = "click"
    /\ github_rx = None
    /\ github_status = "Connected"
    /\ github_prs # <<>>

\* One step of the render loop
LoopStep ==
    \/ FrameStart
    \/ PeriodicSpawn
    \/ PeriodicNoToken
    \/ PeriodicSkip
    \/ PollRecv
    \/ PollEmpty
    \/ ManualSpawn
    \/ ManualNoToken
    \/ NoClick

\* The render loop keeps running frames and every request of every worker
\* thread returns.
Fairness ==
    /\ WF_vars(LoopStep)
    /\ \A w \in 1..MaxWorkers :
         WF_vars(w \in DOMAIN workers /\ WorkerStep(w, SmallInputs))

SpecLive == Spec /\ Fairness

----------------------------------------------------------------------------
(* The fallback loop on its own: the worker of the first periodic trigger  *)
(* has resolved the login, found no pull request by the search and got    *)
(* two repositories listed; the pull lists carry several timestamps.       *)

Pull3 == Pull(Some(Login), Some("p3"), Some("u3"), Some(<<3>>))
Pull2 == Pull(Some(Login), Some("p2"), Some("u2"), Some(<<2>>))
Pull2x == Pull(Some(Login), Some("p2x"), Some("u2x"), Some(<<2>>))
Pull1 == Pull(Some(Login), Some("p1"), Some("u1"), Some(<<1>>))
Pull10 == Pull(Some(Login), Some("p10"), Some("u10"), Some(<<1, 0>>))

\* Failures, malformed bodies and non-empty lists of own pull requests, so
\* that a query that keeps nothing is a query that was skipped.
\* A listing names each of its pull requests once
NoRepeat(s) == \A i, j \in 1..Len(s) : s[i] = s[j] => i = j

FallbackInputs ==
    [search |-> {},
     repos  |-> {},
     pulls  |-> PullsResponsesOver(
                  {s \in SeqsUpTo({Pull3, Pull2, Pull2x, Pull1, Pull10},
                                  MaxPulls) \ {<<>>} : NoRepeat(s)})]

InitFallback ==
    /\ pc = "poll"
    /\ now = 0
    /\ github_status = "Unknown"
    /\ github_rx = Some(1)
    /\ github_last_fetch = 0
    /\ github_token = Some("tok")
    /\ github_prs = <<>>
    /\ workers = <<[pc |-> "pulls", login |-> Login,
                    repos |-> <<RepoNames[1], RepoNames[2]>>,
                    matches |-> <<>>,
                    reqs |-> <<<<"user", "">>, <<"search", "">>, <<"repos", "">>>>,
                    chan |-> <<>>]>>
    /\ last_auto = Some(0)
    /\ last_manual = None

\* The worker's remaining steps and the poll that takes its outcome
NextFallback ==
    \/ \E w \in DOMAIN workers : ListPulls(w, FallbackInputs)
    \/ PollRecv

SpecFallback == InitFallback /\ [][NextFallback]_vars

----------------------------------------------------------------------------
(* Properties of the cascade *)

ReqUser == <<"user", "">>
ReqSearch == <<"search", "">>
ReqRepos == <<"repos", "">>

\* Worker w has ended and queued exactly this outcome after these requests
EndedWith(ws, w, connected, prs, reqs) ==
    /\ w \in DOMAIN ws
    /\ ws[w].pc = "done"
    /\ ws[w].chan = <<[connected |-> connected, prs |-> prs]>>
    /\ ws[w].reqs = reqs

\* Identity responses that fail or carry no string login
IdentityFailures == {Err, Unreadable, Body(JNull), Body(JUser(None))}

\* C11: when the identity request fails or its body has no string login,
\* the worker ends with {connected: false, items: []} and its cycle has
\* issued the identity request only.
C11_IdentityFailure ==
    [][\A w \in DOMAIN workers :
         workers[w].pc = "identify" =>
           \A resp \in IdentityFailures :
             IdentifyOn(w, resp) =>
               EndedWith(workers', w, FALSE, <<>>, <<ReqUser>>)]_vars

\* A cycle has ended disconnected after the identity request alone.
C11_Witness ==
    \E w \in DOMAIN workers : EndedWith(workers, w, FALSE, <<>>, <<ReqUser>>)

\* The search body has at least one item with a title and a url
HasItems(resp) ==
    /\ resp.kind = "body"
    /\ resp.json.type = "object"
    /\ IsSome(resp.json.items)
    /\ \E i \in 1..Len(Unwrap(resp.json.items)) :
         /\ IsSome(Unwrap(resp.json.items)[i].title)
         /\ IsSome(Unwrap(resp.json.items)[i].html_url)

\* C12: when the search request fails, the worker ends with
\* {connected: true, items: []} after the identity and search requests
\* alone; the worker goes on to the repository listing only after a search
\* that was answered with a body and gave no item.
\* (Stated on the states of a worker about to search: no search step on any
\* response is enabled that would end otherwise.)
C12_SearchFailure ==
    \A w \in DOMAIN workers :
       workers[w].pc = "search" =>
         \A resp \in FullInputs.search :
           ~ENABLED
              /\ SearchOn(w, resp)
              /\ ~(/\ resp = Err =>
                        EndedWith(workers', w, TRUE, <<>>,
                                  <<ReqUser, ReqSearch>>)
                   /\ (w \in DOMAIN workers' /\ workers'[w].pc = "repos") =>
                        (resp.kind = "body" /\ ~HasItems(resp)))

\* A cycle has ended connected and empty right after the search request.
C12_Witness ==
    \E w \in DOMAIN workers :
       EndedWith(workers, w, TRUE, <<>>, <<ReqUser, ReqSearch>>)

\* Bodies that do not parse or do not have the expected shape
MalformedUser == {Body(JNull), Body(JUser(None))}
MalformedSearch == {Body(JNull), Body(JSearch(None))}
MalformedList == {Body(JNull), Body(JOther)}

\* C13: at every stage a malformed body leads to the same state as a
\* failed request of that stage (same outcome, same further requests).
C13_MalformedAsFailure ==
    [][\A w \in DOMAIN workers :
         /\ \A bad \in MalformedUser : IdentifyOn(w, bad) => IdentifyOn(w, Err)
         /\ \A bad \in MalformedSearch : SearchOn(w, bad) => SearchOn(w, Err)
         /\ \A bad \in MalformedList : ListReposOn(w, bad) => ListReposOn(w, Err)
         /\ \A bad \in MalformedList : ListPullsOn(w, bad) => ListPullsOn(w, Err)]_vars

\* Search bodies of 1 to 3 items, each with a title and a url
GoodItems == {ItemA, ItemB}
GoodSearchBodies == SeqsUpTo(GoodItems, 3) \ {<<>>}

\* C14: when the search answers with 1 to 3 pull requests, the worker ends
\* with connected = true and exactly these (title, url) pairs in the order
\* of the answer, after the identity and search requests alone.
C14_SearchItems ==
    [][\A w \in DOMAIN workers :
         workers[w].pc = "search" =>
           \A items \in GoodSearchBodies :
             SearchOn(w, Body(JSearch(Some(items)))) =>
               EndedWith(workers', w, TRUE,
                         [i \in 1..Len(items) |->
                            [title |-> items[i].title[1],
                             url |-> items[i].html_url[1]]],
                         <<ReqUser, ReqSearch>>)]_vars

\* A cycle has ended after the search with 3 items, the first two different.
C14_Witness ==
    \E w \in DOMAIN workers :
       /\ workers[w].pc = "done"
       /\ workers[w].reqs = <<ReqUser, ReqSearch>>
       /\ Len(workers[w].chan[1].prs) = 3
       /\ workers[w].chan[1].prs[1] # workers[w].chan[1].prs[2]

\* The records kept from a pull list answer
KeptOf(resp, login) ==
    IF PullsUsable(resp) THEN KeepOwn(resp.json.elems, login) ELSE <<>>

\* Position of record i of m when m is ordered by timestamp string,
\* greatest first, records of equal timestamp in the order of m
Rank(m, i) ==
    1 + Cardinality({j \in 1..Len(m) : StrCmp(m[j][1], m[i][1]) = 1})
      + Cardinality({j \in 1..(i - 1) : m[j][1] = m[i][1]})

StableDesc(m) ==
    [p \in 1..Len(m) |-> m[CHOOSE i \in 1..Len(m) : Rank(m, i) = p][2]]

FirstThree(s) == [i \in 1..(IF Len(s) < 3 THEN Len(s) ELSE 3) |-> s[i]]

\* C15: the outcome of the fallback is the first 3 of the merged kept
\* records, greatest updated_at string first, equal updated_at in encounter
\* order; R1 = [3, 1] and R2 = [2] give [R1-first, R2-PR, R1-second].
C15_FallbackOrder ==
    [][\A w \in DOMAIN workers :
         (workers[w].pc = "pulls" /\ Len(workers[w].repos) = 1) =>
           \A resp \in FallbackInputs.pulls :
             ListPullsOn(w, resp) =>
               LET merged == workers[w].matches
                               \o KeptOf(resp, workers[w].login)
                   prs == workers'[w].chan[1].prs
               IN /\ workers'[w].chan[1].connected
                  /\ prs = FirstThree(StableDesc(merged))
                  /\ (/\ workers[w].matches =
                           <<<< <<3>>, GithubPr("p3", "u3") >>,
                             << <<1>>, GithubPr("p1", "u1") >>>>
                      /\ resp = Body(JArray(<<Pull2>>)))
                       => prs = <<GithubPr("p3", "u3"), GithubPr("p2", "u2"),
                                  GithubPr("p1", "u1")>>]_vars

\* Both repositories were listed and the outcome interleaves them:
\* equal timestamps in encounter order in front of a smaller one.
C15_Witness ==
    \E w \in DOMAIN workers :
       /\ workers[w].pc = "done"
       /\ Len(workers[w].reqs) = 5
       /\ workers[w].chan[1].prs
            \in {<<GithubPr("p3", "u3"), GithubPr("p2", "u2"), GithubPr("p1", "u1")>>,
                 <<GithubPr("p2x", "u2x"), GithubPr("p2", "u2"), GithubPr("p10", "u10")>>}

\* Pull list answers that make the loop skip the repository
PullFailures == {Err, Unreadable, Body(JNull), Body(JOther)}

\* C16: a failed or malformed pull list query is skipped: the request was
\* issued for the next repository in order, nothing is added to the kept
\* records, the loop goes on with the remaining repositories, and after the
\* last repository the outcome is connected with the records of the others.
C16_PerRepoFailureSkipped ==
    [][\A w \in DOMAIN workers :
         workers[w].pc = "pulls" =>
           \A bad \in PullFailures :
             ListPullsOn(w, bad) =>
               /\ workers'[w].reqs =
                    Append(workers[w].reqs, <<"pulls", Head(workers[w].repos)>>)
               /\ IF Len(workers[w].repos) > 1
                  THEN /\ workers'[w].pc = "pulls"
                       /\ workers'[w].repos = Tail(workers[w].repos)
                       /\ workers'[w].matches = workers[w].matches
                       /\ workers'[w].chan = <<>>
                  ELSE /\ workers'[w].pc = "done"
                       /\ workers'[w].chan =
                            <<[connected |-> TRUE,
                               prs |-> FirstThree(StableDesc(workers[w].matches))]>>]_vars

\* Both repositories were queried, one of the two queries was skipped (the
\* other kept its single record) and the cycle has ended connected with
\* that record.
C16_Witness ==
    \E w \in DOMAIN workers :
       /\ workers[w].pc = "done"
       /\ workers[w].reqs[4] = <<"pulls", "R1">>
       /\ workers[w].reqs[5] = <<"pulls", "R2">>
       /\ workers[w].chan[1].connected
       /\ workers[w].chan[1].prs = <<GithubPr("p1", "u1")>>

\* The poll takes an outcome out of the held channel
Consumes ==
    /\ pc = "poll"
    /\ IsSome(github_rx)
    /\ workers[Unwrap(github_rx)].chan # <<>>
    /\ github_rx' = None

\* C17: the status becomes Connected or Disconnected only at a step that
\* consumes an outcome, and it is Unknown as long as a receiver is held.
C17_StatusOnlyByOutcome ==
    /\ [][(github_status' # github_status /\ github_status' # "Unknown")
            => Consumes]_vars
    /\ [](IsSome(github_rx) => github_status = "Unknown")

\* C18: a worker thread has queued nothing while it runs and exactly one
\* outcome once it has ended; after the send it does nothing more; and a
\* thread that has not ended can always take its next step, whatever the
\* render loop has done with the receiver.
C18_ExactlyOneSend ==
    /\ [](\A w \in DOMAIN workers :
            /\ workers[w].pc # "done" => workers[w].chan = <<>>
            /\ workers[w].pc = "done" => Len(workers[w].chan) = 1
            /\ workers[w].pc # "done" => ENABLED WorkerStep(w, SmallInputs))
    /\ [][\A w \in DOMAIN workers :
            (workers[w].pc = "done" /\ w \in DOMAIN workers')
              => workers'[w] = workers[w]]_vars

\* A cycle has run through the whole fallback and queued its one outcome,
\* and a second thread, whose receiver was dropped, is still running.
C18_Witness ==
    \E w, o \in DOMAIN workers :
       /\ workers[w].pc = "done"
       /\ Len(workers[w].chan) = 1
       /\ Len(workers[w].reqs) = 4
       /\ github_rx = Some(w)
       /\ workers[o].pc = "pulls"

\* C19: a fetch in flight eventually stops being in flight.
C19_EventuallyIdle == IsSome(github_rx) ~> (github_rx = None)

\* Number of per-repository requests in a log
NPulls(reqs) == Cardinality({i \in 1..Len(reqs) : reqs[i][1] = "pulls"})

\* C20 as stated: a cycle issues at most 2 + n requests, n the number of
\* repositories whose pull list is queried.
C20_TwoPlusN ==
    \A w \in DOMAIN workers :
       Len(workers[w].reqs) <= 2 + NPulls(workers[w].reqs)

\* C20, amended: a cycle issues at most 3 + n requests (identity, search,
\* repository listing, n pull lists), none of them twice.
C20_ThreePlusN ==
    \A w \in DOMAIN workers :
       /\ Len(workers[w].reqs) <= 3 + NPulls(workers[w].reqs)
       /\ \A i, j \in 1..Len(workers[w].reqs) :
            workers[w].reqs[i] = workers[w].reqs[j] => i = j

\* A cycle has ended after 3 + 2 requests.
C20_Witness ==
    \E w \in DOMAIN workers :
       /\ workers[w].pc = "done"
       /\ NPulls(workers[w].reqs) = 2
       /\ Len(workers[w].reqs) = 5

----------------------------------------------------------------------------
(* The author filter of the fallback.  One cycle from its identity request *)
(* on, with an identity body whose login is a name or the empty string, a  *)
(* search without items, and pull lists with own, foreign and authorless   *)
(* pull requests.                                                          *)

PullMine == Pull(Some(Login), Some("mine"), Some("umine"), Some(<<2>>))
PullTheirs == Pull(Some("you"), Some("theirs"), Some("utheirs"), Some(<<3>>))
\* "user": null, as for a deleted account
PullGhost == Pull(None, Some("ghost"), Some("ughost"), Some(<<1>>))

AuthorPulls == {PullMine, Pull3, PullTheirs, PullGhost}

\* "login" is any JSON string
AuthorLogins == {Login, ""}

AuthorInputs ==
    [search |-> {Body(JSearch(Some(<<>>)))},
     repos  |-> ReposResponsesOver(RepoBodies(MaxRepos)),
     pulls  |-> PullsResponsesOver(SeqsUpTo(AuthorPulls, MaxPulls))]

InitAuthors ==
    /\ pc = "poll"
    /\ now = 0
    /\ github_status = "Unknown"
    /\ github_rx = Some(1)
    /\ github_last_fetch = 0
    /\ github_token = Some("tok")
    /\ github_prs = <<>>
    /\ workers = <<NewWorker>>
    /\ last_auto = Some(0)
    /\ last_manual = None

NextAuthors ==
    \/ \E w \in DOMAIN workers :
          \E l \in AuthorLogins : IdentifyOn(w, Body(JUser(Some(l))))
    \/ \E w \in DOMAIN workers : Search(w, AuthorInputs)
    \/ \E w \in DOMAIN workers : ListRepos(w, AuthorInputs)
    \/ \E w \in DOMAIN workers : ListPulls(w, AuthorInputs)
    \/ PollRecv
    \/ PollEmpty
    \/ NoClick

SpecAuthors == InitAuthors /\ [][NextAuthors]_vars

\* The records of the pull requests whose author is the string login
OwnRecords(login) ==
    {GithubPr(Unwrap(p.title), Unwrap(p.html_url)) :
       p \in {q \in AuthorPulls : q.user_login = Some(login)}}

AllOwnRecords == UNION {OwnRecords(l) : l \in AuthorLogins}

\* C21: every record kept by the fallback, and every item of an outcome or
\* of the displayed list, comes from a pull request whose author is the
\* login resolved by the identity stage; a pull request of another author
\* or without an author is never among them.
C21_OnlyOwnAuthor ==
    /\ \A w \in DOMAIN workers :
         /\ \A i \in 1..Len(workers[w].matches) :
              workers[w].matches[i][2] \in OwnRecords(workers[w].login)
         /\ \A k \in 1..Len(workers[w].chan) :
              \A i \in 1..Len(workers[w].chan[k].prs) :
                workers[w].chan[k].prs[i] \in AllOwnRecords
    /\ \A i \in 1..Len(github_prs) : github_prs[i] \in AllOwnRecords

----------------------------------------------------------------------------
(* The repository listing of the fallback.  One cycle from its listing     *)
(* request on; the listing fails, is malformed, or names up to             *)
(* RepoLimit + 2 repositories (the request asks for per_page=50).          *)

LongNames ==
    <<
      "N01", "N02", "N03", "N04", "N05", "N06", "N07", "N08", "N09",
      "N10", "N11", "N12", "N13", "N14", "N15", "N16", "N17", "N18",
      "N19", "N20", "N21", "N22"
    >>

\* A listing of n named repositories
Named(n) == [i \in 1..n |-> [full_name |-> Some(LongNames[i])]]

ListingBodies ==
    {Named(n) : n \in {0, 1, 2, RepoLimit + 1, RepoLimit + 2}}
    \cup {<<[full_name |-> None]>> \o Named(RepoLimit + 1)}

ListingInputs ==
    [search |-> {},
     repos  |-> ReposResponsesOver(ListingBodies),
     pulls  |-> PullsResponsesOver({<<PullA>>})]

InitListing ==
    /\ pc = "poll"
    /\ now = 0
    /\ github_status = "Unknown"
    /\ github_rx = Some(1)
    /\ github_last_fetch = 0
    /\ github_token = Some("tok")
    /\ github_prs = <<>>
    /\ workers = <<[NewWorker EXCEPT !.pc = "repos", !.login = Login,
                                     !.reqs = <<<<"user", "">>, <<"search", "">>>>]>>
    /\ last_auto = Some(0)
    /\ last_manual = None

NextListing ==
    \/ \E w \in DOMAIN workers : ListRepos(w, ListingInputs)
    \/ \E w \in DOMAIN workers : ListPulls(w, ListingInputs)
    \/ PollRecv

SpecListing == InitListing /\ [][NextListing]_vars

\* The listing request failed, its body could not be read, or the body is
\* not an array
ListingFailures == {Err, Unreadable, Body(JNull), Body(JOther)}

\* C22: when the repository listing fails the worker ends with
\* {connected: true, items: []} after the identity, search and listing
\* requests alone, and a cycle never holds more than 20 repositories to
\* query nor has issued more than 20 pull list requests.
C22_ListingFailure ==
    /\ [][\A w \in DOMAIN workers :
            workers[w].pc = "repos" =>
              \A resp \in ListingFailures :
                ListReposOn(w, resp) =>
                  EndedWith(workers', w, TRUE, <<>>,
                            <<ReqUser, ReqSearch, ReqRepos>>)]_vars
    /\ [](\A w \in DOMAIN workers :
            /\ Len(workers[w].repos) <= RepoLimit
            /\ NPulls(workers[w].reqs) <= RepoLimit)

\* A cycle has ended connected and empty right after its listing request.
C22_Witness ==
    \E w \in DOMAIN workers :
       EndedWith(workers, w, TRUE, <<>>, <<ReqUser, ReqSearch, ReqRepos>>)

\* A cycle with a listing of more than 20 repositories has ended after
\* exactly 20 pull list requests.
C22_LimitReached ==
    \E w \in DOMAIN workers :
       /\ workers[w].pc = "done"
       /\ NPulls(workers[w].reqs) = RepoLimit

----------------------------------------------------------------------------
(* Properties of the render loop's display state *)

\* C23: a periodic trigger that is due and finds no token sets
\* github_last_fetch to now and starts no worker, and it comes at least
\* 300 s after the periodic trigger before it.
C23_NoTokenAdvances ==
    [][PeriodicNoToken =>
         /\ github_last_fetch' = now
         /\ workers' = workers
         /\ github_rx' = None
         /\ (IsSome(last_auto) => now - Unwrap(last_auto) >= FetchInterval)]_vars

\* No token since the start, no click, and a periodic trigger later than
\* the one of the first frame has just resolved to Disconnected.
C23_Witness ==
    /\ pc = "poll"
    /\ github_token = None
    /\ last_manual = None
    /\ last_auto = Some(now)
    /\ github_last_fetch = now
    /\ now > FetchInterval
    /\ workers = <<>>

\* C24: whenever the displayed status is Disconnected the displayed list
\* of pull requests is empty.
C24_DisconnectedShowsNothing ==
    github_status = "Disconnected" => github_prs = <<>>

\* The status is Disconnected although a token is loaded: a disconnected
\* outcome was consumed (the triggers show Disconnected only without a
\* token), and the list is empty.
C24_Witness ==
    /\ github_status = "Disconnected"
    /\ IsSome(github_token)
    /\ github_rx = None
    /\ github_prs = <<>>
    /\ pc = "click"

\* Workers whose receiver the render loop does not hold
Replaced == {w \in DOMAIN workers : github_rx # Some(w)}

\* C25: a started worker gets a channel of its own and the render loop
\* holds the receiver of the worker started last; a value is queued only
\* in the held channel and only by that channel's own worker; a worker
\* whose receiver was replaced queues nothing and changes nothing on
\* display, at its send or at any other step; and the poll applies the
\* outcome of the worker whose receiver is held.
C25_ReplacedDiscarded ==
    /\ [](\A w \in DOMAIN workers :
            workers[w].chan # <<>> =>
              (workers[w].pc = "done" /\ github_rx = Some(w)))
    /\ [][(PeriodicSpawn \/ ManualSpawn) =>
            /\ github_rx' = Some(NewId)
            /\ workers'[NewId] = NewWorker
            /\ \A w \in DOMAIN workers' \ {NewId} :
                 w \in DOMAIN workers /\ workers'[w] = workers[w]]_vars
    /\ [][\A w \in Replaced :
            (w \notin DOMAIN workers' \/ workers'[w] # workers[w]) =>
              /\ render' = render
              /\ \A v \in DOMAIN workers' : workers'[v].chan = workers[v].chan]_vars
    /\ [][(pc = "poll" /\ <<github_status, github_prs>>' # <<github_status, github_prs>>) =>
            /\ IsSome(github_rx)
            /\ workers[Unwrap(github_rx)].pc = "done"
            /\ github_prs' = workers[Unwrap(github_rx)].chan[1].prs
            /\ (github_status' = "Connected") =
                 workers[Unwrap(github_rx)].chan[1].connected]_vars

\* The worker held is the second of two: it was started by a periodic
\* trigger, hence with no receiver held, while the first was still running
\* with its receiver replaced by an earlier click; the first has since sent
\* its outcome, which was discarded.
C25_Witness ==
    /\ github_rx = Some(2)
    /\ DOMAIN workers = {2}
    /\ IsSome(last_manual)
    /\ IsSome(last_auto)
    /\ Unwrap(last_auto) > Unwrap(last_manual)

\* C26: a trigger that starts a worker sets the status to Unknown and
\* leaves the displayed list as it is; the displayed list changes only at
\* the poll that consumes an outcome, to that outcome's items, or at a
\* trigger without a token, which empties it.
C26_ListKeptInFlight ==
    /\ [][(PeriodicSpawn \/ ManualSpawn) =>
            (github_status' = "Unknown" /\ github_prs' = github_prs)]_vars
    /\ [][github_prs' # github_prs =>
            \/ /\ Consumes
               /\ github_prs' = workers[Unwrap(github_rx)].chan[1].prs
            \/ /\ (PeriodicNoToken \/ ManualNoToken)
               /\ github_prs' = <<>>]_vars

\* A worker is in flight, the status is Unknown and the items of an
\* earlier cycle are still on display.
C26_Witness ==
    /\ IsSome(github_rx)
    /\ workers[Unwrap(github_rx)].pc # "done"
    /\ github_status = "Unknown"
    /\ github_prs # <<>>

====
